---------------------------- MODULE Spec2Model ----------------------------
(***************************************************************************)
(* Model of blocks/products/products.js: the products block of an AEM      *)
(* Edge Delivery page.  decorate(block) parses the block's rows into       *)
(* product items, fetches one content fragment per item over the GraphQL   *)
(* persisted query, renders one card per item and replaces the block's     *)
(* content.  The file holds two revisions of the component (lines 1-243    *)
(* and 245-534) that differ in markup only; `variant` selects one.         *)
(*                                                                         *)
(* JavaScript strings are sequences of one-character strings, so that      *)
(* trim() and concatenation are computed.  JSON values are tagged records. *)
(***************************************************************************)
EXTENDS Integers, Sequences, FiniteSets, TLC

VARIABLES
    variant,        \* 1: lines 1-243, 2: lines 245-534
    rows,           \* block.children when decorate is called: rows of cell texts
    blockAttrs,     \* the block element's attributes (names)
    blockHTML,      \* the last markup assigned to block.innerHTML
    blockChildren,  \* the nodes appended to the block after the last assignment
    blockDisplay,   \* block.style.display
    phase,          \* where decorate is
    productItems,   \* const productItems
    task,           \* per item: where its async callback is
    response,       \* per item: what the network answered
    fetched,        \* per item: how getProductDataByContentPath ended
    productCards,   \* per item: the value its callback's promise resolved to
    fetchCalls,     \* the URLs fetch() was called with, in call order
    instrCalls,     \* the moveInstrumentation calls, in call order
    htmlWrites,     \* every markup assigned to block.innerHTML, in order
    thrown          \* where an exception escaped to decorate's catch, if any

vars == <<variant, rows, blockAttrs, blockHTML, blockChildren, blockDisplay,
          phase, productItems, task, response, fetched, productCards,
          fetchCalls, instrCalls, htmlWrites, thrown>>

-----------------------------------------------------------------------------
(* Bounds of the model *)

\* rows of a block handed to decorate
MaxRows == 2
\* rows of a block handed to parseProductItems alone
MaxParseRows == 2
\* cells of a row handed to parseProductItems alone
MaxCells == 3

-----------------------------------------------------------------------------
(* Strings *)

\* the characters String.prototype.trim removes, as far as the model has them
WhiteSpace == {" "}

RECURSIVE TrimStart(_)
TrimStart(s) ==
    IF s # <<>> /\ Head(s) \in WhiteSpace THEN TrimStart(Tail(s)) ELSE s

RECURSIVE TrimEnd(_)
TrimEnd(s) ==
    IF s # <<>> /\ s[Len(s)] \in WhiteSpace
    THEN TrimEnd(SubSeq(s, 1, Len(s) - 1))
    ELSE s

\* String.prototype.trim
Trim(s) == TrimEnd(TrimStart(s))

-----------------------------------------------------------------------------
(* JSON values and the JavaScript operators the code applies to them *)

Undefined == [t |-> "undefined"]
Null == [t |-> "null"]
Str(s) == [t |-> "string", s |-> s]
Obj(f) == [t |-> "object", f |-> f]
EmptyObj == Obj([k \in {} |-> Undefined])

\* a value used as a condition: !v, v || w, v ? a : b
Truthy(v) == v.t = "object" \/ (v.t = "string" /\ v.s # <<>>)

\* v?.k
OptGet(v, k) ==
    IF v.t = "object" /\ k \in DOMAIN v.f THEN v.f[k] ELSE Undefined

\* v || w
OrElse(v, w) == IF Truthy(v) THEN v ELSE w

\* `${v}` of a string value
TextOf(v) == IF v.t = "string" THEN v.s ELSE <<>>

-----------------------------------------------------------------------------
(* Constants of the component *)

AEM_AUTHOR_URL == "https://author-p9606-e71941.adobeaemcloud.com"
GRAPHQL_ENDPOINT ==
    "/graphql/execute.json/jan-cf-models/getProductCreditCardByPath;path="

NoProductsHTML == "<p>No products to display</p>"
LoadingHTML == "<div class=\"products-loading\">Loading products...</div>"
ErrorHTML ==
    "<p class=\"products-error\">Failed to load products. Please try again later.</p>"
\* what block.innerHTML serialises to before decorate touches the block
AuthoredHTML == "(authored rows)"

ProductLiteral == <<"P", "r", "o", "d", "u", "c", "t">>
CreditCardLiteral == <<"C", "r", "e", "d", "i", "t", " ", "C", "a", "r", "d">>
NotAvailableNotice == "Content fragment data not available"

-----------------------------------------------------------------------------
(* parseProductItems *)

\* the body of the forEach callback: what one row pushes onto items
RowItems(cells) ==
    IF Len(cells) >= 2
    THEN LET productName == Trim(cells[1])
             fragmentPath == Trim(cells[2])
         IN  IF fragmentPath # <<>>
             THEN <<[productName |-> productName, fragmentPath |-> fragmentPath]>>
             ELSE <<>>
    ELSE <<>>

RECURSIVE ParseFrom(_, _)
ParseFrom(items, rest) ==
    IF rest = <<>> THEN items
    ELSE ParseFrom(items \o RowItems(Head(rest)), Tail(rest))

\* a parser that tests the second cell's text before trimming it
RECURSIVE ParseUntrimmedCheck(_)
ParseUntrimmedCheck(block) ==
    IF block = <<>> THEN <<>>
    ELSE LET cells == Head(block)
         IN  (IF Len(cells) >= 2 /\ cells[2] # <<>>
              THEN <<[productName |-> Trim(cells[1]),
                      fragmentPath |-> Trim(cells[2])]>>
              ELSE <<>>) \o ParseUntrimmedCheck(Tail(block))

parseProductItems(block) == ParseFrom(<<>>, block)

-----------------------------------------------------------------------------
(* createProductCard *)

CardClass(v) == IF v = 1 THEN "products-card" ELSE "product-card"
FallbackClass(v) == IF v = 1 THEN "products-card" ELSE "product-card product-error"

\* the card built when fragmentData is falsy
FallbackCard(v, productName) ==
    [className |-> FallbackClass(v),
     title     |-> IF productName # <<>> THEN productName ELSE ProductLiteral,
     notice    |-> NotAvailableNotice,
     image     |-> <<>>,
     alt       |-> <<>>,
     sections  |-> {},
     cta       |-> FALSE,
     instr     |-> {}]

\* a title that prefers the name given in the block over the record's name
TitleBlockNameFirst(productName, fragmentData) ==
    IF productName # <<>> THEN productName
    ELSE LET n == OptGet(fragmentData, "creditCardName")
         IN  IF Truthy(n) THEN TextOf(n) ELSE ProductLiteral

\* fragmentData.creditCardName || productName || 'Product'
CardTitle(productName, fragmentData) ==
    LET n == OptGet(fragmentData, "creditCardName")
    IN  IF Truthy(n) THEN TextOf(n)
        ELSE IF productName # <<>> THEN productName
        ELSE ProductLiteral

\* fragmentData.<field>?.plaintext || ''
PlainText(fragmentData, field) ==
    OrElse(OptGet(OptGet(fragmentData, field), "plaintext"), Str(<<>>))

createProductCard(v, productName, fragmentData) ==
    IF ~Truthy(fragmentData) THEN FallbackCard(v, productName)
    ELSE LET authorUrl == OptGet(OptGet(fragmentData, "creditCardImage"), "_authorUrl")
             altText   == OrElse(OptGet(fragmentData, "creditCardName"),
                                 Str(CreditCardLiteral))
         IN  [className |-> CardClass(v),
              title     |-> CardTitle(productName, fragmentData),
              notice    |-> "",
              image     |-> IF Truthy(authorUrl) THEN TextOf(authorUrl) ELSE <<>>,
              alt       |-> IF Truthy(authorUrl) THEN TextOf(altText) ELSE <<>>,
              sections  |-> {f \in {"creditCardDescription", "promo", "notes"} :
                                Truthy(PlainText(fragmentData, f))},
              cta       |-> (v = 2),
              instr     |-> {}]

-----------------------------------------------------------------------------
(* getProductDataByContentPath *)

\* `${AEM_AUTHOR_URL}${GRAPHQL_ENDPOINT}${contentPath}`
Url(contentPath) == <<AEM_AUTHOR_URL, GRAPHQL_ENDPOINT>> \o contentPath

\* Response.ok
Ok(status) == status \in 200..299

\* how one call ended: a message is a sequence of text pieces
Pending == [kind |-> "pending", message |-> <<>>, value |-> Undefined]
Threw(message) == [kind |-> "threw", message |-> message, value |-> Undefined]
Returned(value) == [kind |-> "returned", message |-> <<>>, value |-> value]

\* `HTTP error! status: ${response.status} - ${response.statusText}`
HttpErrorMessage(r) ==
    <<"HTTP error! status: ", ToString(r.status), " - ", r.statusText>>

\* the catch block: throw new Error(`Failed to fetch GraphQL Data: ${error.message}`)
Rethrow(message) == Threw(<<"Failed to fetch GraphQL Data: ">> \o message)

\* a fetcher that takes every response for a success
AfterResponseIgnoresStatus(r) == Pending

\* from the response to the next await: Pending when it goes on to response.json()
AfterResponse(r) ==
    IF ~Ok(r.status) THEN Rethrow(HttpErrorMessage(r)) ELSE Pending

\* cf?.data?.productCreditCardModelByPath?.item || ''
CfData(cf) ==
    OrElse(OptGet(OptGet(OptGet(cf, "data"), "productCreditCardModelByPath"), "item"),
           Str(<<>>))

\* from the parsed body to the return
AfterJson(cf) == IF ~Truthy(CfData(cf)) THEN Returned(Null) ELSE Returned(CfData(cf))

-----------------------------------------------------------------------------
(* moveInstrumentation (scripts/scripts.js) *)

InstrumentationAttrs == {"data-aue-resource", "data-aue-type", "data-richtext-prop"}

\* a helper that takes the attributes away from the element it reads
moveInstrumentationStrips(from, to) ==
    [from |-> from \ InstrumentationAttrs,
     to   |-> [to EXCEPT !.instr = from \cap InstrumentationAttrs]]

\* copies the instrumentation attributes of `from` onto `to`
moveInstrumentation(from, to) ==
    [from |-> from,
     to   |-> [to EXCEPT !.instr = from \cap InstrumentationAttrs]]

-----------------------------------------------------------------------------
(* decorate *)

NoCard == [className |-> "(unsettled)"]

\* what the network answered a fetch: nothing yet, a response (whose body is
\* unread, parsed or not JSON), or a rejection
NoResponse ==
    [kind |-> "none", status |-> 0, statusText |-> "", error |-> <<>>,
     json |-> "unread", body |-> Undefined]
HttpResponse(status, statusText) ==
    [kind |-> "response", status |-> status, statusText |-> statusText, error |-> <<>>,
     json |-> "unread", body |-> Undefined]
NetworkError(message) ==
    [kind |-> "rejected", status |-> 0, statusText |-> "", error |-> message,
     json |-> "unread", body |-> Undefined]

Indexes == 1..Len(productItems)

\* the slot of Promise.all's result that the i-th promise fills
StoreInCompletionOrder(cards, i, card) ==
    LET free == {j \in DOMAIN cards : cards[j] = NoCard}
        k == CHOOSE j \in free : \A m \in free : j <= m
    IN  [cards EXCEPT ![k] = card]

StoreResult(cards, i, card) == [cards EXCEPT ![i] = card]

AnySettled == \E i \in Indexes : task[i] = "settled"

\* Promise.all resolves
AllSettled == \A i \in Indexes : task[i] = "settled"

\* decorate is suspended in `await Promise.all(...)`: callbacks may run
Suspended == phase = "awaiting"

SetInnerHTML(html) ==
    /\ blockHTML' = html
    /\ blockChildren' = <<>>
    /\ htmlWrites' = Append(htmlWrites, html)

\* decorate up to the loading state, without the test for an empty item list
ParseWithoutEmptyTest ==
    /\ phase = "idle"
    /\ LET items == parseProductItems(rows)
       IN  /\ productItems' = items
           /\ task' = [i \in 1..Len(items) |-> "notStarted"]
           /\ response' = [i \in 1..Len(items) |-> NoResponse]
           /\ fetched' = [i \in 1..Len(items) |-> Pending]
           /\ productCards' = [i \in 1..Len(items) |-> NoCard]
           /\ phase' = IF Len(items) = 0 THEN "awaiting" ELSE "issuing"
    /\ SetInnerHTML(LoadingHTML)
    /\ blockDisplay' = IF variant = 2 THEN "block" ELSE blockDisplay
    /\ UNCHANGED <<variant, rows, blockAttrs, fetchCalls, instrCalls, thrown>>

\* decorate from its call to the loading state (or to the empty state)
Parse ==
    /\ phase = "idle"
    /\ LET items == parseProductItems(rows)
       IN  /\ productItems' = items
           /\ task' = [i \in 1..Len(items) |-> "notStarted"]
           /\ response' = [i \in 1..Len(items) |-> NoResponse]
           /\ fetched' = [i \in 1..Len(items) |-> Pending]
           /\ productCards' = [i \in 1..Len(items) |-> NoCard]
           /\ IF Len(items) = 0
              THEN /\ SetInnerHTML(NoProductsHTML)
                   /\ phase' = "empty"
              ELSE /\ SetInnerHTML(LoadingHTML)
                   /\ phase' = "issuing"
    /\ blockDisplay' = IF variant = 2 THEN "block" ELSE blockDisplay
    /\ UNCHANGED <<variant, rows, blockAttrs, fetchCalls, instrCalls, thrown>>

\* productItems.map: the i-th callback runs to its first await, inside fetch
StartTask(i) ==
    /\ phase = "issuing"
    /\ task[i] = "notStarted"
    /\ \A j \in 1..(i - 1) : task[j] # "notStarted"
    /\ fetchCalls' = Append(fetchCalls, Url(productItems[i].fragmentPath))
    /\ task' = [task EXCEPT ![i] = "awaitFetch"]
    /\ phase' = IF i = Len(productItems) THEN "awaiting" ELSE "issuing"
    /\ UNCHANGED <<variant, rows, blockAttrs, blockHTML, blockChildren, blockDisplay,
                   productItems, response, fetched, productCards, instrCalls,
                   htmlWrites, thrown>>

\* a callback without its own try/catch: a failed item rejects Promise.all
SettleWithoutItemCatch(i, res) ==
    /\ fetched' = [fetched EXCEPT ![i] = res]
    /\ task' = [task EXCEPT ![i] = "settled"]
    /\ IF res.kind = "returned"
       THEN LET card == createProductCard(variant, productItems[i].productName, res.value)
                mv == moveInstrumentation(blockAttrs, card)
            IN  /\ productCards' = StoreResult(productCards, i, mv.to)
                /\ blockAttrs' = mv.from
                /\ instrCalls' = Append(instrCalls, i)
                /\ UNCHANGED <<phase, blockHTML, blockChildren, htmlWrites, blockDisplay>>
       ELSE /\ SetInnerHTML(ErrorHTML)
            /\ blockDisplay' = IF variant = 2 THEN "block" ELSE blockDisplay
            /\ phase' = "failed"
            /\ UNCHANGED <<productCards, blockAttrs, instrCalls>>

\* a callback whose catch returns nothing: the failed item's slot stays empty
SettleDropsFailed(i, res) ==
    /\ fetched' = [fetched EXCEPT ![i] = res]
    /\ task' = [task EXCEPT ![i] = "settled"]
    /\ IF res.kind = "returned"
       THEN LET card == createProductCard(variant, productItems[i].productName, res.value)
                mv == moveInstrumentation(blockAttrs, card)
            IN  /\ productCards' = StoreResult(productCards, i, mv.to)
                /\ blockAttrs' = mv.from
                /\ instrCalls' = Append(instrCalls, i)
       ELSE UNCHANGED <<productCards, blockAttrs, instrCalls>>
    /\ UNCHANGED <<phase, blockHTML, blockChildren, htmlWrites, blockDisplay>>

\* the rest of the i-th callback once getProductDataByContentPath ended with res
Settle(i, res) ==
    /\ fetched' = [fetched EXCEPT ![i] = res]
    /\ task' = [task EXCEPT ![i] = "settled"]
    /\ IF res.kind = "returned"
       THEN LET card == createProductCard(variant, productItems[i].productName, res.value)
                mv == moveInstrumentation(blockAttrs, card)
            IN  /\ productCards' = StoreResult(productCards, i, mv.to)
                /\ blockAttrs' = mv.from
                /\ instrCalls' = Append(instrCalls, i)
       ELSE /\ productCards' =
                   StoreResult(productCards, i,
                               createProductCard(variant, productItems[i].productName, Null))
            /\ UNCHANGED <<blockAttrs, instrCalls>>
    /\ UNCHANGED <<phase, blockHTML, blockChildren, htmlWrites, blockDisplay>>

\* fetch() resolves with a response
FetchResponds(i, r) ==
    /\ Suspended
    /\ task[i] = "awaitFetch"
    /\ response' = [response EXCEPT ![i] = r]
    /\ IF AfterResponse(r).kind = "pending"
       THEN /\ task' = [task EXCEPT ![i] = "awaitJson"]
            /\ UNCHANGED <<fetched, productCards, blockAttrs, instrCalls, phase,
                           blockHTML, blockChildren, htmlWrites, blockDisplay>>
       ELSE Settle(i, AfterResponse(r))
    /\ UNCHANGED <<variant, rows, productItems, fetchCalls, thrown>>

\* fetch() rejects: a network failure
FetchRejects(i, message) ==
    /\ Suspended
    /\ task[i] = "awaitFetch"
    /\ response' = [response EXCEPT ![i] = NetworkError(message)]
    /\ Settle(i, Rethrow(message))
    /\ UNCHANGED <<variant, rows, productItems, fetchCalls, thrown>>

\* response.json() resolves with the parsed body
JsonParsed(i, cf) ==
    /\ Suspended
    /\ task[i] = "awaitJson"
    /\ response' = [response EXCEPT ![i].json = "parsed", ![i].body = cf]
    /\ Settle(i, AfterJson(cf))
    /\ UNCHANGED <<variant, rows, productItems, fetchCalls, thrown>>

\* response.json() rejects: the body is not JSON
JsonRejects(i, message) ==
    /\ Suspended
    /\ task[i] = "awaitJson"
    /\ response' = [response EXCEPT ![i].json = "rejected", ![i].error = message]
    /\ Settle(i, Rethrow(message))
    /\ UNCHANGED <<variant, rows, productItems, fetchCalls, thrown>>

\* const ul (and, in the second revision, the title section)
ListNode(cards) ==
    [tag |-> "ul",
     className |-> IF variant = 1 THEN "products-list" ELSE "",
     html |-> "",
     items |-> SelectSeq(cards, LAMBDA c : c # NoCard)]

TitleSection ==
    [tag |-> "div", className |-> "products-title",
     html |-> "<h2>Your card options</h2>", items |-> <<>>]

\* decorate after Promise.all: the list replaces the block's content
Assemble ==
    /\ Suspended
    /\ AllSettled
    /\ blockHTML' = ""
    /\ htmlWrites' = Append(htmlWrites, "")
    /\ blockDisplay' = IF variant = 2 THEN "" ELSE blockDisplay
    /\ blockChildren' = IF variant = 2
                        THEN <<TitleSection, ListNode(productCards)>>
                        ELSE <<ListNode(productCards)>>
    /\ phase' = "rendered"
    /\ UNCHANGED <<variant, rows, blockAttrs, productItems, task, response, fetched,
                   productCards, fetchCalls, instrCalls, thrown>>

\* an exception escapes parseProductItems into decorate's catch
ParseThrows ==
    /\ phase = "idle"
    /\ thrown' = "parse"
    /\ SetInnerHTML(ErrorHTML)
    /\ blockDisplay' = IF variant = 2 THEN "block" ELSE blockDisplay
    /\ phase' = "failed"
    /\ UNCHANGED <<variant, rows, blockAttrs, productItems, task, response, fetched,
                   productCards, fetchCalls, instrCalls>>

\* an exception escapes the list assembly into decorate's catch, before
\* (at = "append") or after (at = "replace") block.innerHTML = ''
AssembleThrows(at) ==
    /\ Suspended
    /\ AllSettled
    /\ thrown' = "assemble"
    /\ blockHTML' = ErrorHTML
    /\ blockChildren' = <<>>
    /\ htmlWrites' = IF at = "replace"
                     THEN htmlWrites \o <<"", ErrorHTML>>
                     ELSE Append(htmlWrites, ErrorHTML)
    /\ blockDisplay' = IF variant = 2 THEN "block" ELSE blockDisplay
    /\ phase' = "failed"
    /\ UNCHANGED <<variant, rows, blockAttrs, productItems, task, response, fetched,
                   productCards, fetchCalls, instrCalls>>

-----------------------------------------------------------------------------
(* Inputs *)

\* rows of cells: no cell, one cell, a blank path, two items, a third cell
DecorateRows ==
    { <<>>,
      << <<"a">> >>,
      << <<"a">>, <<" ">> >>,
      << <<"a">>, <<"/", "p">> >>,
      << <<>>, <<" ", "/", "q", " ">> >>,
      << <<" ", "b">>, <<"/", "p">>, <<"x">> >> }

DecorateBlocks == UNION {[1..n -> DecorateRows] : n \in 0..MaxRows}

CellTexts == { <<>>, <<" ">>, <<"a">>, <<" ", "b", " ">> }

\* rows of up to MaxCells cells; cells after the second, which the parser never
\* reads, hold one text
ParseRows ==
    UNION {{r \in [1..n -> CellTexts] : \A k \in 3..n : r[k] = <<"a">>} : n \in 0..MaxCells}

ParseBlocks == UNION {[1..n -> ParseRows] : n \in 0..MaxParseRows}

Wrap(item) ==
    Obj([data |-> Obj([productCreditCardModelByPath |-> Obj([item |-> item])])])

NamedRecord ==
    Obj([creditCardName |-> Str(<<"G", "o", "l", "d">>),
         creditCardDescription |-> Obj([plaintext |-> Str(<<"d">>)]),
         creditCardImage |-> Obj([_authorUrl |-> Str(<<"u">>)])])
UnnamedRecord == Obj([promo |-> Obj([plaintext |-> Str(<<"p">>)])])

\* the records createProductCard is given: every field present or absent,
\* the name and the description also present and empty
CardRecords ==
    { Obj([k \in ks |-> f[k]]) :
        ks \in SUBSET {"creditCardName", "creditCardDescription", "promo", "notes",
                       "creditCardImage"},
        f \in [creditCardName : {Str(<<>>), Str(<<"G", "o", "l", "d">>)},
               creditCardDescription : {Obj([plaintext |-> Str(<<>>)]),
                                        Obj([plaintext |-> Str(<<"d">>)])},
               promo : {Obj([plaintext |-> Str(<<"p">>)])},
               notes : {Obj([plaintext |-> Str(<<"n">>)])},
               creditCardImage : {Obj([_authorUrl |-> Str(<<"u">>)])}] }

CardNames == { <<>>, <<"a">>, <<"a", " ", "b">> }

Responses == { HttpResponse(200, "OK"), HttpResponse(404, "Not Found") }
NetworkErrors == { <<"Failed to fetch">> }
JsonErrors == { <<"Unexpected end of JSON input">> }
Bodies == { Obj([data |-> EmptyObj]), Wrap(NamedRecord), Wrap(UnnamedRecord) }

AllResponses ==
    { HttpResponse(200, "OK"), HttpResponse(201, "Created"), HttpResponse(299, ""),
      HttpResponse(300, "Multiple Choices"), HttpResponse(304, "Not Modified"),
      HttpResponse(404, "Not Found"), HttpResponse(500, "Internal Server Error") }
AllNetworkErrors == { <<"Failed to fetch">>, <<"NetworkError when attempting to fetch resource.">> }
AllBodies ==
    { Null, Str(<<"o", "k">>), EmptyObj,
      Obj([errors |-> Str(<<"e">>)]),
      Obj([data |-> Null]),
      Obj([data |-> EmptyObj]),
      Obj([data |-> Obj([productCreditCardModelByPath |-> Null])]),
      Obj([data |-> Obj([productCreditCardModelByPath |-> EmptyObj])]),
      Obj([data |-> Obj([productCreditCardList |-> Obj([item |-> NamedRecord])])]),
      Wrap(Null), Wrap(Str(<<>>)), Wrap(EmptyObj), Wrap(NamedRecord), Wrap(UnnamedRecord) }

-----------------------------------------------------------------------------
(* Specifications *)

Fresh ==
    /\ variant \in {1, 2}
    /\ blockHTML = AuthoredHTML
    /\ blockChildren = <<>>
    /\ blockDisplay = ""
    /\ phase = "idle"
    /\ productItems = <<>>
    /\ task = <<>>
    /\ response = <<>>
    /\ fetched = <<>>
    /\ productCards = <<>>
    /\ fetchCalls = <<>>
    /\ instrCalls = <<>>
    /\ htmlWrites = <<>>
    /\ thrown = "none"

\* decorate(block) is called
Init ==
    /\ Fresh
    /\ rows \in DecorateBlocks
    /\ blockAttrs \in {{"class"}, {"class", "data-aue-resource", "data-aue-type"}}

Next ==
    \/ Parse
    \/ \E i \in Indexes : StartTask(i)
    \/ \E i \in Indexes, r \in Responses : FetchResponds(i, r)
    \/ \E i \in Indexes, e \in NetworkErrors : FetchRejects(i, e)
    \/ \E i \in Indexes, cf \in Bodies : JsonParsed(i, cf)
    \/ \E i \in Indexes, e \in JsonErrors : JsonRejects(i, e)
    \/ Assemble

Spec == Init /\ [][Next]_vars

\* decorate where the DOM may throw outside the per-item handler
NextFault ==
    \/ Next
    \/ ParseThrows
    \/ \E at \in {"append", "replace"} : AssembleThrows(at)

SpecFault == Init /\ [][NextFault]_vars

\* decorate on a block of one or two items, against every answer of the network
InitFetch ==
    /\ Fresh
    /\ rows \in { << << <<"a">>, <<"/", "p">> >> >>,
                   << << <<>>, <<"/", "q">> >>, << <<"b">>, <<"/", "p">> >> >> }
    /\ blockAttrs \in {{"class"}, {"class", "data-aue-resource", "data-aue-type"}}

NextFetch ==
    \/ Parse
    \/ \E i \in Indexes : StartTask(i)
    \/ \E i \in Indexes, r \in AllResponses : FetchResponds(i, r)
    \/ \E i \in Indexes, e \in AllNetworkErrors : FetchRejects(i, e)
    \/ \E i \in Indexes, cf \in AllBodies : JsonParsed(i, cf)
    \/ \E i \in Indexes, e \in JsonErrors : JsonRejects(i, e)
    \/ Assemble

SpecFetch == InitFetch /\ [][NextFetch]_vars

\* parseProductItems alone
InitParse ==
    /\ Fresh
    /\ rows \in ParseBlocks
    /\ blockAttrs = {"class"}

ParseOnly ==
    /\ phase = "idle"
    /\ productItems' = parseProductItems(rows)
    /\ phase' = "parsed"
    /\ UNCHANGED <<variant, rows, blockAttrs, blockHTML, blockChildren, blockDisplay,
                   task, response, fetched, productCards, fetchCalls, instrCalls,
                   htmlWrites, thrown>>

SpecParse == InitParse /\ [][ParseOnly]_vars

\* createProductCard alone: the name is the item's, the record is fetched[1].value
InitCard ==
    /\ variant \in {1, 2}
    /\ rows = <<>>
    /\ blockAttrs = {"class"}
    /\ blockHTML = AuthoredHTML
    /\ blockChildren = <<>>
    /\ blockDisplay = ""
    /\ phase = "idle"
    /\ productItems \in {<<[productName |-> n, fragmentPath |-> <<"/", "p">>]>> : n \in CardNames}
    /\ task = <<"settled">>
    /\ response = <<NoResponse>>
    /\ fetched \in {<<Returned(d)>> : d \in CardRecords \cup {Null}}
    /\ productCards = <<NoCard>>
    /\ fetchCalls = <<>>
    /\ instrCalls = <<>>
    /\ htmlWrites = <<>>
    /\ thrown = "none"

RenderOnly ==
    /\ phase = "idle"
    /\ productCards' =
           <<createProductCard(variant, productItems[1].productName, fetched[1].value)>>
    /\ phase' = "carded"
    /\ UNCHANGED <<variant, rows, blockAttrs, blockHTML, blockChildren, blockDisplay,
                   productItems, task, response, fetched, fetchCalls, instrCalls,
                   htmlWrites, thrown>>

SpecCard == InitCard /\ [][RenderOnly]_vars

-----------------------------------------------------------------------------
(* What the claims speak of *)

\* the rows the item parser is to keep
QualifyingRows ==
    {k \in 1..Len(rows) : Len(rows[k]) >= 2 /\ Trim(rows[k][2]) # <<>>}

\* the body has the field data.productCreditCardModelByPath.item
HasItemField(b) ==
    /\ b.t = "object" /\ "data" \in DOMAIN b.f
    /\ b.f.data.t = "object" /\ "productCreditCardModelByPath" \in DOMAIN b.f.data.f
    /\ b.f.data.f.productCreditCardModelByPath.t = "object"
    /\ "item" \in DOMAIN b.f.data.f.productCreditCardModelByPath.f

ItemField(b) == b.f.data.f.productCreditCardModelByPath.f.item

Success(r) == r.kind = "response" /\ r.status >= 200 /\ r.status <= 299

\* the i-th fetch failed: a non-2xx status, a network rejection, a JSON parse error
FetchFailed(i) ==
    \/ response[i].kind = "rejected"
    \/ response[i].kind = "response" /\ ~Success(response[i])
    \/ response[i].json = "rejected"

\* the i-th fetch returned a record
GotRecord(i) ==
    /\ Success(response[i]) /\ response[i].json = "parsed"
    /\ HasItemField(response[i].body) /\ Truthy(ItemField(response[i].body))

NameOrProduct(name) == IF name = <<>> THEN ProductLiteral ELSE name

IsFallbackCard(c, name) ==
    c.notice = NotAvailableNotice /\ c.title = NameOrProduct(name) /\ c.sections = {}

IsNormalCard(c) == c.notice = "" /\ c.className = CardClass(variant)

\* the list shown in the block, if one is
Lists == {k \in 1..Len(blockChildren) : blockChildren[k].tag = "ul"}
ShownCards == blockChildren[CHOOSE k \in Lists : TRUE].items

Terminal == phase \in {"empty", "rendered", "failed"}

\* the moveInstrumentation calls made for the i-th item's card
CallsFor(i) == Cardinality({k \in 1..Len(instrCalls) : instrCalls[k] = i})

-----------------------------------------------------------------------------
(* Claims *)

\* C1: partial-failure isolation.  For a non-empty item list and any mix of
\* failed and successful fetches decorate never fails and, once nothing is
\* left to run, has rendered; the list then holds one card per item, a
\* fallback card for each failed fetch and a normal card for each record.
C1_PartialFailureIsolation ==
    /\ phase # "failed"
    /\ blockHTML # ErrorHTML
    /\ (Len(productItems) > 0 /\ AllSettled /\ ~ENABLED Next) => phase = "rendered"
    /\ phase = "rendered" =>
         /\ Cardinality(Lists) = 1
         /\ Len(ShownCards) = Len(productItems)
         /\ \A i \in Indexes :
              /\ FetchFailed(i) =>
                   IsFallbackCard(ShownCards[i], productItems[i].productName)
              /\ GotRecord(i) => IsNormalCard(ShownCards[i])

\* a rendered block of two items, the first fetch rejected, the second a record
C1_Witness ==
    /\ phase = "rendered"
    /\ Len(productItems) = 2
    /\ response[1].kind = "rejected"
    /\ GotRecord(2)
    /\ ShownCards[1].notice = NotAvailableNotice
    /\ ShownCards[2].notice = ""

\* C2: with no qualifying row decorate writes the "No products to display"
\* message, and nothing else, into the block and stops: the loading
\* placeholder is never shown and fetch is never called.
C2_EmptyBlock ==
    (QualifyingRows = {} /\ phase # "idle") =>
        /\ phase = "empty"
        /\ productItems = <<>>
        /\ blockHTML = NoProductsHTML
        /\ blockChildren = <<>>
        /\ htmlWrites = <<NoProductsHTML>>
        /\ fetchCalls = <<>>
        /\ ~ENABLED Next

\* the empty state of a block that has rows, none of them qualifying
C2_Witness ==
    /\ phase = "empty"
    /\ Len(rows) = 2
    /\ Len(rows[1]) < 2
    /\ Len(rows[2]) >= 2
    /\ blockHTML = NoProductsHTML

\* C3: fan-in.  No fetch settles before every fetch is issued, and while a
\* per-item task is unsettled the block shows the loading placeholder and
\* no list, whatever the other fetches returned.
C3_FanIn ==
    /\ (\E i \in Indexes : task[i] \in {"awaitJson", "settled"}) =>
           /\ Len(fetchCalls) = Len(productItems)
           /\ \A i \in Indexes : task[i] # "notStarted"
    /\ (\E i \in Indexes : task[i] \in {"awaitFetch", "awaitJson"}) =>
           /\ phase \in {"issuing", "awaiting"}
           /\ blockHTML = LoadingHTML
           /\ blockChildren = <<>>
           /\ ~ENABLED Assemble

\* one fetch has returned a record while the other is still in flight
C3_Witness ==
    /\ Len(productItems) = 2
    /\ task[1] = "awaitFetch"
    /\ task[2] = "settled"
    /\ GotRecord(2)
    /\ blockHTML = LoadingHTML

\* C4: decorate fails exactly when an exception is raised outside the
\* per-item handler; the block then holds the error paragraph and no list.
\* What the block shows tells the terminal states apart, and a terminal
\* state is final.
C4_FailedIffEscaped ==
    /\ (phase = "failed") <=> (thrown # "none")
    /\ (blockHTML = ErrorHTML) <=> (phase = "failed")
    /\ phase = "failed" => blockChildren = <<>>
    /\ (blockHTML = NoProductsHTML) <=> (phase = "empty")
    /\ (Lists # {}) <=> (phase = "rendered")
    /\ Terminal => ~ENABLED NextFault

\* the assembly threw after a fetch had failed and been turned into a fallback card
C4_Witness ==
    /\ phase = "failed"
    /\ thrown = "assemble"
    /\ \E i \in Indexes : FetchFailed(i) /\ productCards[i].notice = NotAvailableNotice

\* C5: getProductDataByContentPath throws, with the underlying message, on a
\* non-2xx status and on a network failure, and returns null on a 2xx
\* response whose JSON body lacks data.productCreditCardModelByPath.item.
C5_FetchOutcome ==
    \A i \in Indexes :
        /\ (response[i].kind = "response" /\ ~Success(response[i])) =>
               /\ fetched[i].kind = "threw"
               /\ fetched[i].value = Undefined
               /\ fetched[i].message =
                      <<"Failed to fetch GraphQL Data: ", "HTTP error! status: ",
                        ToString(response[i].status), " - ", response[i].statusText>>
        /\ response[i].kind = "rejected" =>
               /\ fetched[i].kind = "threw"
               /\ fetched[i].value = Undefined
               /\ fetched[i].message =
                      <<"Failed to fetch GraphQL Data: ">> \o response[i].error
        /\ (Success(response[i]) /\ response[i].json = "parsed"
               /\ ~HasItemField(response[i].body)) =>
               fetched[i] = Returned(Null)

\* a 404 for the first item, the body {"data":{}} for the second
C5_Witness ==
    /\ Len(productItems) = 2
    /\ response[1].status = 404
    /\ fetched[1].kind = "threw"
    /\ response[2].status = 200
    /\ response[2].body = Obj([data |-> EmptyObj])
    /\ fetched[2] = Returned(Null)

\* the row that the j-th item is to come from: the j-th qualifying row
QualifyingRow(j) ==
    CHOOSE k \in QualifyingRows : Cardinality({m \in QualifyingRows : m < k}) = j - 1

\* C6: parseProductItems keeps exactly the rows that have at least two cells
\* and a second cell whose trimmed text is not empty, in the order of the
\* rows, each as the trimmed texts of its first and second cells.
C6_ParsedItems ==
    phase = "parsed" =>
        /\ Len(productItems) = Cardinality(QualifyingRows)
        /\ \A j \in 1..Len(productItems) :
             /\ productItems[j].productName = Trim(rows[QualifyingRow(j)][1])
             /\ productItems[j].fragmentPath = Trim(rows[QualifyingRow(j)][2])

\* a row with a blank path is dropped and the padded row after it is kept, trimmed
C6_Witness ==
    /\ phase = "parsed"
    /\ Len(rows) = 2
    /\ rows[1] = << <<"a">>, <<" ">> >>
    /\ rows[2] = << <<" ", "b", " ">>, <<" ", "b", " ">>, <<"a">> >>
    /\ productItems = <<[productName |-> <<"b">>, fragmentPath |-> <<"b">>]>>

\* C7 as stated: the title is the record's name whenever the record has the
\* field creditCardName, whatever its text.
C7_TitleWhenNamePresent ==
    phase = "carded" =>
        LET name == productItems[1].productName
            data == fetched[1].value
            card == productCards[1]
        IN  IF data = Null
            THEN card.notice = NotAvailableNotice /\ card.title = NameOrProduct(name)
            ELSE card.title = IF "creditCardName" \in DOMAIN data.f
                              THEN data.f.creditCardName.s
                              ELSE NameOrProduct(name)

\* C7, amended: the title is the record's name if the record has a non-empty
\* creditCardName, otherwise the given name if it is non-empty, otherwise
\* "Product"; for a null record the card is the fallback card, titled with
\* the given name or "Product", with the "data not available" notice.
C7_TitleSelection ==
    phase = "carded" =>
        LET name == productItems[1].productName
            data == fetched[1].value
            card == productCards[1]
        IN  IF data = Null
            THEN card.notice = NotAvailableNotice /\ card.title = NameOrProduct(name)
            ELSE /\ card.notice = ""
                 /\ card.title =
                      IF "creditCardName" \in DOMAIN data.f
                           /\ data.f.creditCardName.s # <<>>
                      THEN data.f.creditCardName.s
                      ELSE NameOrProduct(name)

\* a record with a name and a block name: the record's name is the title
C7_Witness ==
    /\ phase = "carded"
    /\ productItems[1].productName = <<"a">>
    /\ fetched[1].value # Null
    /\ "creditCardName" \in DOMAIN fetched[1].value.f
    /\ productCards[1].title = <<"G", "o", "l", "d">>

\* C8: every card of the rendered list has had exactly one
\* moveInstrumentation call made for it, the fallback cards of failed
\* fetches included.
C8_EveryCardInstrumented ==
    phase = "rendered" => \A i \in Indexes : CallsFor(i) = 1

\* the content of the card that the i-th item's name and response determine
CardContentMatches(c, i) ==
    IF GotRecord(i)
    THEN /\ IsNormalCard(c)
         /\ c.title = CardTitle(productItems[i].productName, ItemField(response[i].body))
    ELSE IsFallbackCard(c, productItems[i].productName)

\* the same, with the instrumentation the card received
CardMatches(c, i) ==
    /\ CardContentMatches(c, i)
    /\ c.instr = IF FetchFailed(i) THEN {} ELSE blockAttrs \cap InstrumentationAttrs

\* C9: between the fan-out and the fan-in a step of one item's task changes
\* neither the block nor another item's slot, and the card in a settled slot
\* is the one its own item and response determine, instrumentation included.
C9_NoSharedMutation ==
    /\ [](\A i \in Indexes : task[i] = "settled" => CardMatches(productCards[i], i))
    /\ [][(phase = "awaiting" /\ phase' = "awaiting") =>
             /\ blockAttrs' = blockAttrs
             /\ blockHTML' = blockHTML
             /\ blockChildren' = blockChildren
             /\ \A j \in Indexes :
                  task'[j] = task[j] =>
                      /\ productCards'[j] = productCards[j]
                      /\ fetched'[j] = fetched[j]
                      /\ response'[j] = response[j]]_vars

\* both items got a record, the second first, from an instrumented block
C9_Witness ==
    /\ phase = "awaiting"
    /\ instrCalls = <<2, 1>>
    /\ "data-aue-resource" \in blockAttrs
    /\ productCards[1].instr = {"data-aue-resource", "data-aue-type"}
    /\ productCards[2].instr = {"data-aue-resource", "data-aue-type"}

\* C10: the i-th card of the rendered list is the card of the i-th item,
\* whatever the order the fetches settled in; fetch is called once per item,
\* in item order, and never again.
C10_OrderPreserved ==
    /\ Len(fetchCalls) <= Len(productItems)
    /\ phase \in {"awaiting", "rendered"} =>
         fetchCalls = [i \in Indexes |-> Url(productItems[i].fragmentPath)]
    /\ phase = "rendered" =>
         /\ Len(ShownCards) = Len(productItems)
         /\ \A i \in Indexes : CardContentMatches(ShownCards[i], i)

\* rendered after the second fetch settled before the first, which found no record
C10_Witness ==
    /\ phase = "rendered"
    /\ Len(productItems) = 2
    /\ productItems[1].productName # productItems[2].productName
    /\ instrCalls = <<2, 1>>
    /\ GotRecord(2)
    /\ ~GotRecord(1)

=============================================================================
